---- MODULE Spec2Model ----
(***************************************************************************)
(* A model of dnflow's summarize.py: the luigi task graph rooted at        *)
(* RunFlow (and SummaryHTML, which no task requires), executed by a luigi  *)
(* worker, and the body of MatchMedia.                                     *)
(*                                                                         *)
(* The executor is luigi's: a task is registered DONE when complete() is   *)
(* true at registration and is then never run; otherwise it is PENDING and *)
(* is handed to a worker once every task it requires is DONE.  A failed    *)
(* task stays FAILED for the rest of the run (the run is shorter than the  *)
(* scheduler's retry delay), tasks that do not require it go on.  Tasks of *)
(* equal rank (the tasks RunFlow yields that require only FetchTweets) are *)
(* handed out in the order RunFlow.requires yields them; how they          *)
(* interleave with the CountMedia..BagIt chain is left open.               *)
(***************************************************************************)
EXTENDS Integers, Sequences, FiniteSets, TLC

\* ------------------------------------------------------------- bounds
MaxRuns == 2
MaxWorkers == 2
MaxFaults == 1
MaxParams == 2
MaxFiles == 3

\* -------------------------------------------------------- task graph
\* RunFlow.requires, in the order of its yield statements
RunFlowYields ==
  << "CountHashtags", "SummaryJSON", "EdgelistHashtags", "CountUrls",
     "CountDomains", "CountMentions", "CountFollowers", "CountRetweets",
     "FollowRatio", "EdgelistMentions", "PopulateRedis", "MatchMedia",
     "ExtractTweetIds", "CreateCsv", "Sampler", "BagIt" >>

Range(s) == { s[k] : k \in 1..Len(s) }

Tasks ==
  Range(RunFlowYields)
    \cup { "RunFlow", "FetchTweets", "CountMedia", "FetchMedia", "SummaryHTML" }

\* the tasks luigi can be asked for: RunFlow, or SummaryHTML, which no
\* other task requires
Roots == { "RunFlow", "SummaryHTML" }

\* a faulty variant: MatchMedia.requires returns FetchTweets, as the
\* requires of most classes do
RequiresCopyPaste(t) ==
  CASE t = "RunFlow"       -> Range(RunFlowYields)
    [] t = "FetchTweets"   -> {}
    [] t = "FetchMedia"    -> { "CountMedia" }
    [] t = "PopulateRedis" -> { "MatchMedia" }
    [] t = "BagIt"         -> { "PopulateRedis" }
    [] OTHER               -> { "FetchTweets" }

\* a faulty variant: BagIt declares no requires
RequiresBagItFree(t) ==
  CASE t = "RunFlow"       -> Range(RunFlowYields)
    [] t = "FetchTweets"   -> {}
    [] t = "BagIt"         -> {}
    [] t = "FetchMedia"    -> { "CountMedia" }
    [] t = "MatchMedia"    -> { "FetchMedia" }
    [] t = "PopulateRedis" -> { "MatchMedia" }
    [] OTHER               -> { "FetchTweets" }

\* a faulty variant: PopulateRedis.requires returns FetchTweets, whose
\* tweets.json its run() opens first
RequiresRedisOnTweets(t) ==
  CASE t = "RunFlow"       -> Range(RunFlowYields)
    [] t = "FetchTweets"   -> {}
    [] t = "FetchMedia"    -> { "CountMedia" }
    [] t = "MatchMedia"    -> { "FetchMedia" }
    [] t = "BagIt"         -> { "PopulateRedis" }
    [] OTHER               -> { "FetchTweets" }

\* requires() of every task class
Requires(t) ==
  CASE t = "RunFlow"       -> Range(RunFlowYields)
    [] t = "FetchTweets"   -> {}
    [] t = "FetchMedia"    -> { "CountMedia" }
    [] t = "MatchMedia"    -> { "FetchMedia" }
    [] t = "PopulateRedis" -> { "MatchMedia" }
    [] t = "BagIt"         -> { "PopulateRedis" }
    [] OTHER               -> { "FetchTweets" }

\* tasks whose run() calls update_job itself (progress notifications)
ProgressTasks == { "FetchTweets", "FetchMedia", "MatchMedia" }

\* the tasks RunFlow yields that require FetchTweets only: equal rank,
\* handed out in yield order
Leaves == SelectSeq(RunFlowYields, LAMBDA t : Requires(t) = { "FetchTweets" })

RECURSIVE Closure(_)
\* the tasks S requires, directly or transitively, S included
Closure(S) ==
  LET N == S \cup UNION { Requires(t) : t \in S }
  IN  IF N = S THEN S ELSE Closure(N)

\* the tasks t requires directly or transitively
TransRequires(t) == Closure(Requires(t))

\* --------------------------------------------------------------- state
VARIABLES
  invocations, \* how often the operator invokes luigi
  run,        \* number of invocations of luigi so far
  phase,      \* "idle" | "running" | "ended" | "cancelled"
  root,       \* the task the current invocation asked for
  params,     \* the (jobid, term, count, token, secret) of the current job
  prev,       \* the invocation before: its params, date_path and root,
              \* whether its root task ended DONE, whether a task of it
              \* failed, whether it left the Target of FetchTweets complete
  date_path,  \* RunFlow.date_path of the current process
  workers,    \* size of the worker pool
  status,     \* scheduler status of each task in the current run
  bodies,     \* how often run() of each task was entered in the current run
  cause,      \* why a task failed: "none" | "body" | "notify" | "unfulfilled"
  events,     \* START/SUCCESS/FAILURE handlers called per task, in order
  target,     \* the Target of each task under data/<date_path>, for the
              \* current date_path: "absent" | "partial" | "complete"
  snap,       \* the Targets that existed when the current run was invoked
  faults      \* faults injected so far (exceptions, lost PUTs, cancels)

\* the run of MatchMedia.run on one media directory
VARIABLES
  files,      \* sorted(os.listdir(media)): per file its content
  tracker,    \* whether the PUT of update_job gets through
  i,          \* the loop variable of run()
  matches,    \* the list matches
  g,          \* the graph g: nodes in insertion order, edges
  compared,   \* the pairs << f, f2 >> the inner loop has compared, in order
  mm,         \* "loop" | "done" | "failed"
  graph_json  \* media-graph.json: << "absent" >> or << "written", groups >>

\* the run of FetchTweets.run on one search
VARIABLES
  source,     \* what t.search(term) yields: the lang of each tweet, in order
  count,      \* search['count']
  fi,         \* the loop variable i of run()
  fh,         \* the lines written to the temporary file: per line the
              \* position in source of the tweet it holds
  ft,         \* "idle" | "loop" | "done" | "failed"
  tweets_json \* tweets.json: << "absent" >> or << "written", lines >>

\* calls of get_block_size made so far: per call n, d and the result
VARIABLE calls

\* the run of CountHashtags.run on one tweets.json
VARIABLES
  tweets,     \* the lines of tweets.json: per tweet the text of its hashtags
  counter,    \* the Counter c: << key, count >> pairs in insertion order
  hi,         \* the number of lines read
  hs,         \* "idle" | "loop" | "done"
  count_hashtags_csv \* << "absent" >> or << "written", data rows >>

\* the run of CountRetweets.run on one tweets.json
VARIABLES
  feed,       \* how the first Limit lines of tweets.json are made up
  rk,         \* the number of lines read
  retweets,   \* the list retweets
  retweet_ids, \* the set retweet_ids
  rt,         \* << >>, or << the entry popped last >>
  rs,         \* "idle" | "loop" | "done"
  retweets_csv \* << "absent" >> or << "written", data rows >>

evars == << invocations, run, phase, root, params, prev, date_path, workers, status,
            bodies, cause, events, target, snap, faults >>

bodyvars == << files, tracker, i, matches, g, compared, mm, graph_json >>

fetchvars == << source, count, fi, fh, ft, tweets_json >>

hashvars == << tweets, counter, hi, hs, count_hashtags_csv >>

rtvars == << feed, rk, retweets, retweet_ids, rt, rs, retweets_csv >>

vars == << evars, bodyvars, fetchvars, calls, hashvars, rtvars >>

NoPrev ==
  [ params |-> 0, date_path |-> 0, root |-> "none", done |-> FALSE, failed |-> FALSE,
    fetched |-> FALSE ]

NoTargets == [ t \in Tasks |-> "absent" ]

\* output(): every task but RunFlow declares one Target under data/<date_path>
HasTarget(t) == t # "RunFlow"

\* luigi.Task.complete / PopulateRedis.complete: the Target exists; a task
\* without output is never complete
Complete(tgt, t) == HasTarget(t) /\ tgt[t] # "absent"

\* the second argument of the str.replace in output(): the file name
FileNames ==
  [ CountHashtags |-> "count-hashtags.csv",
    EdgelistHashtags |-> "edgelist-hashtags.csv",
    CountUrls |-> "count-urls.csv",
    CountDomains |-> "count-domains.csv",
    CountMentions |-> "count-mentions.csv",
    EdgelistMentions |-> "edgelist-mentions.csv",
    CountMedia |-> "count-media.csv",
    FetchMedia |-> "media-checksums-md5.txt",
    MatchMedia |-> "media-graph.json",
    CountFollowers |-> "count-followers.csv",
    FollowRatio |-> "follow-ratio.csv",
    SummaryJSON |-> "summary.json",
    ExtractTweetIds |-> "tweet-ids.txt",
    CountRetweets |-> "retweets.csv",
    CreateCsv |-> "tweets.csv",
    Sampler |-> "sample.csv" ]

\* a faulty variant: output() of CountDomains was copied from CountUrls
\* with its file name left as it was
NewNameCopyPaste(t) == IF t = "CountDomains" THEN FileNames["CountUrls"] ELSE FileNames[t]

NewName(t) == FileNames[t]

\* the first argument of the str.replace in output()
OldName(t) ==
  CASE t = "FetchMedia" -> "count-media.csv"
    [] t = "MatchMedia" -> "media-checksums-md5.txt"
    [] OTHER            -> "tweets.json"

\* fn.replace(old, new) on a path << store, directory, file name >>: the
\* directory is data/<date_path>, in which neither old name occurs
Replace(fn, old, new) == IF fn[3] = old THEN << fn[1], fn[2], new >> ELSE fn

RECURSIVE output(_)
\* output() of each class: the locator of its Target; RunFlow has none
output(t) ==
  CASE t = "RunFlow"       -> << >>
    [] t = "FetchTweets"   -> << "file", date_path, "tweets.json" >>
    [] t = "SummaryHTML"   -> << "file", date_path, "summary.html" >>
    [] t = "BagIt"         -> << "file", date_path, "<date_path>.zip" >>
    [] t = "PopulateRedis" -> << "redis", date_path, "" >>
    [] OTHER ->
         Replace(output(CHOOSE d \in Requires(t) : TRUE), OldName(t), NewName(t))

\* MatchMedia.run not entered
NoBody ==
  /\ files = << >>
  /\ tracker = TRUE
  /\ i = 0
  /\ matches = << >>
  /\ g = [ nodes |-> << >>, edges |-> {} ]
  /\ compared = << >>
  /\ mm = "idle"
  /\ graph_json = << "absent" >>

\* FetchTweets.run not entered
NoFetch ==
  /\ source = << >>
  /\ count = 0
  /\ fi = 0
  /\ fh = << >>
  /\ ft = "idle"
  /\ tweets_json = << "absent" >>

\* get_block_size not called
NoCalls == calls = << >>

\* CountHashtags.run not entered
NoHashtags ==
  /\ tweets = << >>
  /\ counter = << >>
  /\ hi = 0
  /\ hs = "idle"
  /\ count_hashtags_csv = << "absent" >>

\* CountRetweets.run not entered
NoRetweets ==
  /\ feed = "none"
  /\ rk = 0
  /\ retweets = << >>
  /\ retweet_ids = {}
  /\ rt = << >>
  /\ rs = "idle"
  /\ retweets_csv = << "absent" >>

\* before luigi is invoked: no process, nothing under data/
Idle ==
  /\ run = 0
  /\ phase = "idle"
  /\ root = "RunFlow"
  /\ params = 0
  /\ prev = NoPrev
  /\ date_path = 0
  /\ status = [ t \in Tasks |-> "NONE" ]
  /\ bodies = [ t \in Tasks |-> 0 ]
  /\ cause = [ t \in Tasks |-> "none" ]
  /\ events = [ t \in Tasks |-> << >> ]
  /\ target = NoTargets
  /\ snap = {}
  /\ faults = 0

\* one invocation of luigi, with a pool of up to MaxWorkers workers
Init ==
  /\ Idle
  /\ NoBody
  /\ NoFetch
  /\ NoCalls
  /\ NoHashtags
  /\ NoRetweets
  /\ invocations = 1
  /\ workers \in 1..MaxWorkers

\* up to MaxRuns invocations, one after the other, each with luigi's default
\* of one worker
InitRerun ==
  /\ Idle
  /\ NoBody
  /\ NoFetch
  /\ NoCalls
  /\ NoHashtags
  /\ NoRetweets
  /\ invocations = MaxRuns
  /\ workers = 1

RECURSIVE Visit(_, _)
\* Worker.add: from the root, a task that is complete is registered DONE and
\* its requirements are not looked at; any other task is PENDING and its
\* requirements are visited
Visit(tgt, S) ==
  LET N == S \cup UNION { Requires(t) : t \in { u \in S : ~Complete(tgt, u) } }
  IN  IF N = S THEN S ELSE Visit(tgt, N)

\* a faulty variant: complete() is not asked, every visited task is PENDING
RegisteredAlwaysPending(tgt, r, t) ==
  IF t \notin Closure({ r }) THEN "NONE" ELSE "PENDING"

Registered(tgt, r, t) ==
  IF t \notin Visit(tgt, { r }) THEN "NONE"
  ELSE IF Complete(tgt, t) THEN "DONE"
  ELSE "PENDING"

\* the directory data/<dp> as an invocation with date_path dp finds it: as
\* the run before left it when dp is its date_path, empty when dp is new.
\* Every path a task opens is built from search['date_path'], so the
\* directories of other date_paths are neither read nor written and are
\* not part of the state.
Directory(dp) == IF dp = date_path THEN target ELSE NoTargets

\* search['lang'] as RunFlow.requires sets it
Lang == "en"

\* a faulty variant: CountMedia builds the search it passes on anew
search_rebuilt(t) ==
  [ date_path |-> date_path,
    job |-> IF t = "CountMedia" THEN params + 1 ELSE params,
    lang |-> Lang ]

\* the search a task passes to the tasks it requires: RunFlow.requires
\* builds it from its parameters and date_path, every other requires()
\* passes self.search on as it got it
search_passed(t) == [ date_path |-> date_path, job |-> params, lang |-> Lang ]

\* luigi's task_id: the task family and the parameter values
task_id(family, s) == << family, s >>

\* the tasks requires() of t constructs
RequiredIds(t) == { task_id(d, search_passed(t)) : d \in Requires(t) }

\* One invocation of luigi for root r: in the same process as the one before
\* (date_path is a class attribute, computed once at import) or in a new
\* process (a new time_hash); a cancelled process is gone.  RunFlow.requires
\* PUTs the job to the tracker first; when that raises, RunFlow is broken
\* and nothing is scheduled.
Invoke(r, ps, dp, delivered) ==
  /\ phase \in { "idle", "ended", "cancelled" }
  /\ phase = "cancelled" => dp # date_path
  /\ run < invocations
  /\ delivered \/ (r = "RunFlow" /\ faults < MaxFaults)
  /\ run' = run + 1
  /\ root' = r
  /\ params' = ps
  /\ prev' = IF run = 0 THEN NoPrev
             ELSE [ params |-> params, date_path |-> date_path, root |-> root,
                    done |-> phase = "ended" /\ status[root] = "DONE",
                    failed |-> phase = "ended" /\ \E t \in Tasks : status[t] = "FAILED",
                    fetched |-> Complete(target, "FetchTweets") ]
  /\ date_path' = dp
  /\ target' = Directory(dp)
  /\ snap' = { t \in Tasks : Complete(Directory(dp), t) }
  /\ bodies' = [ t \in Tasks |-> 0 ]
  /\ cause' = [ t \in Tasks |-> "none" ]
  /\ events' = [ t \in Tasks |-> << >> ]
  /\ IF delivered
       THEN /\ status' = [ t \in Tasks |-> Registered(Directory(dp), r, t) ]
            /\ phase' = "running"
            /\ faults' = faults
       ELSE /\ status' = [ t \in Tasks |-> IF t = r THEN "BROKEN" ELSE "NONE" ]
            /\ phase' = "ended"
            /\ faults' = faults + 1
  /\ UNCHANGED << invocations, workers, bodyvars, fetchvars, calls, hashvars, rtvars >>

Running == { t \in Tasks : status[t] = "RUNNING" }

\* the scheduler's get_work: PENDING, every requirement DONE
Ready(t) ==
  /\ status[t] = "PENDING"
  /\ \A d \in Requires(t) : status[d] = "DONE"

\* among the leaves, the first one in yield order that is still PENDING
LeafTurn(t) ==
  \A k \in 1..Len(Leaves) :
    Leaves[k] = t => \A j \in 1..(k - 1) : status[Leaves[j]] # "PENDING"

\* a faulty variant: run() dumps straight into the final Target path
WhileRunningInPlace(t, old) == IF t # "RunFlow" THEN "partial" ELSE old

\* what run() writes to the final Target path before it returns: nothing,
\* every body writes a temporary file (LocalTarget.open('w'), BagIt's
\* NamedTemporaryFile) or touches its marker last (PopulateRedis)
WhileRunning(t, old) == old

\* the Target after run() returned: renamed into place
OnReturn(t, old) == IF HasTarget(t) THEN "complete" ELSE old

\* the Target after run() raised: the temporary file is dropped
OnRaise(t, old) == old

\* a faulty variant: a PENDING task is started whatever became of the tasks
\* it requires
StartTaskUngated(t) ==
  /\ phase = "running"
  /\ status[t] = "PENDING"
  /\ Cardinality(Running) < workers
  /\ status' = [ status EXCEPT ![t] = "RUNNING" ]
  /\ bodies' = [ bodies EXCEPT ![t] = @ + 1 ]
  /\ events' = [ events EXCEPT ![t] = Append(@, "START") ]
  /\ UNCHANGED << bodyvars, fetchvars, calls, hashvars, rtvars, invocations, run, phase, root, params, prev, date_path,
                  workers, snap, faults, cause, target >>

\* TaskProcess.run up to the call of run(): requirements are checked once
\* more, then the START handler is called
StartTask(t) ==
  /\ phase = "running"
  /\ Ready(t)
  /\ LeafTurn(t)
  /\ Cardinality(Running) < workers
  /\ IF \E d \in Requires(t) : ~Complete(target, d)
       THEN /\ status' = [ status EXCEPT ![t] = "FAILED" ]
            /\ cause' = [ cause EXCEPT ![t] = "unfulfilled" ]
            /\ events' = [ events EXCEPT ![t] = Append(@, "FAILURE") ]
            /\ UNCHANGED << bodies, target >>
       ELSE /\ status' = [ status EXCEPT ![t] = "RUNNING" ]
            /\ bodies' = [ bodies EXCEPT ![t] = @ + 1 ]
            /\ events' = [ events EXCEPT ![t] = Append(@, "START") ]
            /\ target' = [ target EXCEPT ![t] = WhileRunning(t, @) ]
            /\ UNCHANGED cause
  /\ UNCHANGED << bodyvars, fetchvars, calls, hashvars, rtvars, invocations, run, phase, root, params, prev, date_path, workers, snap, faults >>

\* TaskProcess.run calls RunFlow.requires again before run(): the PUT of
\* update_job raises and RunFlow fails without having started
RequiresRaises ==
  /\ phase = "running"
  /\ Ready("RunFlow")
  /\ Cardinality(Running) < workers
  /\ faults < MaxFaults
  /\ status' = [ status EXCEPT !["RunFlow"] = "FAILED" ]
  /\ cause' = [ cause EXCEPT !["RunFlow"] = "notify" ]
  /\ events' = [ events EXCEPT !["RunFlow"] = Append(@, "FAILURE") ]
  /\ faults' = faults + 1
  /\ UNCHANGED << bodyvars, fetchvars, calls, hashvars, rtvars, invocations, run, phase, root, params, prev, date_path, workers, bodies,
                  target, snap >>

\* SummaryHTML.run reads self.term, which the class does not declare
AlwaysRaises(t) == t = "SummaryHTML"

\* a faulty variant: an exception of the SUCCESS handler counts as a failure
\* of the task
SucceedThenFailure(t) ==
  /\ phase = "running"
  /\ status[t] = "RUNNING"
  /\ ~AlwaysRaises(t)
  /\ status' = [ status EXCEPT ![t] = "DONE" ]
  /\ events' = [ events EXCEPT ![t] = Append(Append(@, "SUCCESS"), "FAILURE") ]
  /\ target' = [ target EXCEPT ![t] = OnReturn(t, @) ]
  /\ UNCHANGED << bodyvars, fetchvars, calls, hashvars, rtvars, invocations, run, phase, root, params, prev, date_path, workers, bodies,
                  cause, snap, faults >>

\* run() returns: the Target is in place, the SUCCESS handler is called
Succeed(t) ==
  /\ phase = "running"
  /\ status[t] = "RUNNING"
  /\ ~AlwaysRaises(t)
  /\ status' = [ status EXCEPT ![t] = "DONE" ]
  /\ events' = [ events EXCEPT ![t] = Append(@, "SUCCESS") ]
  /\ target' = [ target EXCEPT ![t] = OnReturn(t, @) ]
  /\ UNCHANGED << bodyvars, fetchvars, calls, hashvars, rtvars, invocations, run, phase, root, params, prev, date_path, workers, bodies,
                  cause, snap, faults >>

\* a faulty variant: the exception of run() is swallowed, the task counts
\* as done
FailSwallowed(t, c) ==
  /\ phase = "running"
  /\ status[t] = "RUNNING"
  /\ \/ c = "body" /\ AlwaysRaises(t) /\ faults' = faults
     \/ c = "body" /\ ~AlwaysRaises(t) /\ HasTarget(t)
          /\ faults < MaxFaults /\ faults' = faults + 1
     \/ c = "notify" /\ t \in ProgressTasks
          /\ faults < MaxFaults /\ faults' = faults + 1
  /\ status' = [ status EXCEPT ![t] = "DONE" ]
  /\ cause' = [ cause EXCEPT ![t] = c ]
  /\ events' = [ events EXCEPT ![t] = Append(@, "SUCCESS") ]
  /\ target' = [ target EXCEPT ![t] = OnReturn(t, @) ]
  /\ UNCHANGED << bodyvars, fetchvars, calls, hashvars, rtvars, invocations, run, phase, root, params, prev, date_path, workers, bodies, snap >>

\* a faulty variant: a task whose run() raised is handed out again
FailRequeued(t, c) ==
  /\ phase = "running"
  /\ status[t] = "RUNNING"
  /\ \/ c = "body" /\ AlwaysRaises(t) /\ faults' = faults
     \/ c = "body" /\ ~AlwaysRaises(t) /\ HasTarget(t)
          /\ faults < MaxFaults /\ faults' = faults + 1
     \/ c = "notify" /\ t \in ProgressTasks
          /\ faults < MaxFaults /\ faults' = faults + 1
  /\ status' = [ status EXCEPT ![t] = "PENDING" ]
  /\ cause' = [ cause EXCEPT ![t] = c ]
  /\ events' = [ events EXCEPT ![t] = Append(@, "FAILURE") ]
  /\ target' = [ target EXCEPT ![t] = OnRaise(t, @) ]
  /\ UNCHANGED << bodyvars, fetchvars, calls, hashvars, rtvars, invocations, run, phase, root, params, prev, date_path, workers, bodies, snap >>

\* run() raises (c = "body": an I/O error, a bad record, an unreadable
\* image; c = "notify": the PUT of an update_job call inside run() raised):
\* the FAILURE handler is called
Fail(t, c) ==
  /\ phase = "running"
  /\ status[t] = "RUNNING"
  /\ \/ c = "body" /\ AlwaysRaises(t) /\ faults' = faults
     \/ c = "body" /\ ~AlwaysRaises(t) /\ HasTarget(t)
          /\ faults < MaxFaults /\ faults' = faults + 1
     \/ c = "notify" /\ t \in ProgressTasks
          /\ faults < MaxFaults /\ faults' = faults + 1
  /\ status' = [ status EXCEPT ![t] = "FAILED" ]
  /\ cause' = [ cause EXCEPT ![t] = c ]
  /\ events' = [ events EXCEPT ![t] = Append(@, "FAILURE") ]
  /\ target' = [ target EXCEPT ![t] = OnRaise(t, @) ]
  /\ UNCHANGED << bodyvars, fetchvars, calls, hashvars, rtvars, invocations, run, phase, root, params, prev, date_path, workers, bodies, snap >>

\* Worker.run leaves its loop: nothing runs and the scheduler has no task
RunEnd ==
  /\ phase = "running"
  /\ Running = {}
  /\ \A t \in Tasks : ~Ready(t)
  /\ phase' = "ended"
  /\ UNCHANGED << bodyvars, fetchvars, calls, hashvars, rtvars, invocations, run, root, params, prev, date_path, workers, status, bodies,
                  cause, events, target, snap, faults >>

\* the job is cancelled: the task processes are killed where they are
Cancel ==
  /\ phase = "running"
  /\ faults < MaxFaults
  /\ phase' = "cancelled"
  /\ faults' = faults + 1
  /\ status' = [ t \in Tasks |-> IF status[t] = "RUNNING" THEN "KILLED" ELSE status[t] ]
  /\ UNCHANGED << bodyvars, fetchvars, calls, hashvars, rtvars, invocations, run, root, params, prev, date_path, workers, bodies, cause,
                  events, target, snap >>

Next ==
  \/ \E r \in Roots, ps \in 1..MaxParams, dp \in 1..MaxRuns, delivered \in BOOLEAN :
       /\ ps <= (IF run = 0 THEN 1 ELSE params + 1)
       /\ dp \in (IF run = 0 THEN { 1 } ELSE { date_path, run + 1 })
       /\ Invoke(r, ps, dp, delivered)
  \/ \E t \in Tasks : StartTask(t)
  \/ RequiresRaises
  \/ \E t \in Tasks : Succeed(t)
  \/ \E t \in Tasks, c \in { "body", "notify" } : Fail(t, c)
  \/ RunEnd
  \/ Cancel

Spec == Init /\ [][Next]_vars

SpecRerun == InitRerun /\ [][Next]_vars

\* ------------------------------------------------------- get_block_size
DefaultBlockSize == 100

RECURSIVE CeilLog10From(_, _, _)
CeilLog10From(n, k, pow) ==
  IF pow >= n THEN k ELSE CeilLog10From(n, k + 1, pow * 10)

\* math.ceil(math.log10(n)) for n >= 1
CeilLog10(n) == CeilLog10From(n, 0, 1)

\* a faulty variant: the remainder of n by r in place of the quotient
get_block_size_rem(n, d) ==
  IF n <= 0 THEN DefaultBlockSize
  ELSE LET r == CeilLog10(n) * d
       IN  IF r = 0 THEN DefaultBlockSize
           ELSE IF n % r > 0 THEN n % r
           ELSE DefaultBlockSize

\* a faulty variant: the quotient is returned as it is
get_block_size_unguarded(n, d) ==
  IF n <= 0 THEN DefaultBlockSize
  ELSE LET r == CeilLog10(n) * d
       IN  IF r = 0 THEN DefaultBlockSize ELSE n \div r

\* get_block_size(n, d=1, default=100)
get_block_size(n, d) ==
  IF n <= 0 THEN DefaultBlockSize
  ELSE LET r == CeilLog10(n) * d
       IN  IF r = 0 THEN DefaultBlockSize
           ELSE IF n \div r > 0 THEN n \div r
           ELSE DefaultBlockSize

\* ------------------------------------------------------- MatchMedia.run
\* the three perceptual hashes of an image are bit codes, written as the
\* set of their 1-bits; the codes the media files are drawn from
AHashes == { {}, 1..20 }
DHashes == { {}, 1..20 }
PHashes == { {}, 1..21 }

\* a file of the media directory: an image PIL can open, or not
Images ==
  [ readable : { TRUE }, ahash : AHashes, dhash : DHashes, phash : PHashes ]

Corrupt == [ readable |-> FALSE, ahash |-> {}, dhash |-> {}, phash |-> {} ]

MediaFiles == Images \cup { Corrupt }

\* ImageHash.__sub__: the number of bits in which two codes differ
Hamming(a, b) == Cardinality((a \ b) \cup (b \ a))

\* sum([ahash - f2['ahash'], dhash - f2['dhash'], phash - f2['phash']])
SumHash(x, y) ==
  Hamming(x.ahash, y.ahash) + Hamming(x.dhash, y.dhash) + Hamming(x.phash, y.phash)

Threshold == 40

Damping == 5

\* a faulty variant: sumhash < 40
IsMatchStrict(sumhash) == sumhash < Threshold

\* sumhash <= 40
IsMatch(sumhash) == sumhash <= Threshold

InSeq(s, x) == \E k \in 1..Len(s) : s[k] = x

\* nx.Graph.add_edge(u, v): both ends become nodes, in this order
add_edge(gr, u, v) ==
  LET n1 == IF InSeq(gr.nodes, u) THEN gr.nodes ELSE Append(gr.nodes, u)
      n2 == IF InSeq(n1, v) THEN n1 ELSE Append(n1, v)
  IN  [ nodes |-> n2, edges |-> gr.edges \cup { { u, v } } ]

\* a faulty variant: every file is added to g as a node
EnterFileAddsNode(gr, f) ==
  [ nodes |-> IF InSeq(gr.nodes, f) THEN gr.nodes ELSE Append(gr.nodes, f),
    edges |-> gr.edges ]

\* what one pass of the outer loop does to g for file f (1-based position
\* in files) before the inner loop: nothing, a file becomes a node only as
\* the end of an edge
EnterFile(gr, f) == gr

RECURSIVE InnerLoop(_, _, _, _)
\* for j in range(0, i): compare files[i] with files[j]; st is the triple
\* << matches, g, compared >>.  Files are named by their 1-based position, so f is
\* i + 1 and f2 runs over 1..i.
InnerLoop(fs, f, f2, st) ==
  IF f2 >= f THEN st
  ELSE LET sumhash == SumHash(fs[f], fs[f2])
       IN  InnerLoop(fs, f, f2 + 1,
             IF IsMatch(sumhash)
               THEN << Append(st[1], << f, f2, sumhash >>), add_edge(st[2], f, f2),
                       Append(st[3], << f, f2 >>) >>
               ELSE << st[1], st[2], Append(st[3], << f, f2 >>) >>)

Neighbours(gr, v) == { w \in Range(gr.nodes) : { v, w } \in gr.edges /\ w # v }

\* a faulty variant: only the neighbours of the start node are collected
PlainBfsShallow(gr, seen, level) ==
  level \cup UNION { Neighbours(gr, v) : v \in level }

RECURSIVE plain_bfs(_, _, _)
\* networkx _plain_bfs: the nodes reached from the nodes of level
plain_bfs(gr, seen, level) ==
  LET new == level \ seen
  IN  IF new = {} THEN seen
      ELSE plain_bfs(gr, seen \cup new, UNION { Neighbours(gr, v) : v \in new })

RECURSIVE ComponentsFrom(_, _, _, _)
ComponentsFrom(gr, k, seen, acc) ==
  IF k > Len(gr.nodes) THEN acc
  ELSE IF gr.nodes[k] \in seen THEN ComponentsFrom(gr, k + 1, seen, acc)
  ELSE LET c == plain_bfs(gr, {}, { gr.nodes[k] })
       IN  ComponentsFrom(gr, k + 1, seen \cup c, Append(acc, c))

\* list(nx.connected_components(g)): for each node not seen yet, in node
\* order, the set its breadth-first search reaches
connected_components(gr) == ComponentsFrom(gr, 1, {}, << >>)

RECURSIVE SeqsUpTo(_, _)
SeqsUpTo(S, n) ==
  IF n = 0 THEN { << >> }
  ELSE LET shorter == SeqsUpTo(S, n - 1)
       IN  shorter \cup { Append(s, x) : s \in { q \in shorter : Len(q) = n - 1 }, x \in S }

\* a media directory of up to MaxFiles files, and a tracker that is up or
\* down
InitMatch ==
  /\ Idle
  /\ NoFetch
  /\ NoCalls
  /\ NoHashtags
  /\ NoRetweets
  /\ invocations = 0
  /\ workers = 1
  /\ files \in SeqsUpTo(MediaFiles, MaxFiles)
  /\ tracker \in BOOLEAN
  /\ i = 0
  /\ matches = << >>
  /\ g = [ nodes |-> << >>, edges |-> {} ]
  /\ compared = << >>
  /\ mm = "loop"
  /\ graph_json = << "absent" >>

\* one pass of "for i in range(len(files))"
MatchLoop ==
  /\ mm = "loop"
  /\ i < Len(files)
  /\ IF ~files[i + 1].readable
       THEN \* Image.open raises
            /\ mm' = "failed"
            /\ UNCHANGED << i, matches, g, compared >>
       ELSE LET st == InnerLoop(files, i + 1, 1, << matches, EnterFile(g, i + 1), compared >>)
                notify == i % get_block_size(Len(files), Damping) = 0
            IN  /\ matches' = st[1]
                /\ g' = st[2]
                /\ compared' = st[3]
                /\ IF notify /\ ~tracker
                     THEN \* requests.put raises inside update_job
                          /\ mm' = "failed"
                          /\ i' = i
                     ELSE /\ mm' = mm
                          /\ i' = i + 1
  /\ UNCHANGED << files, tracker, graph_json, evars, fetchvars, calls, hashvars, rtvars >>

\* after the loop: the components are dumped to the Target
MatchWrite ==
  /\ mm = "loop"
  /\ i = Len(files)
  /\ graph_json' = << "written", connected_components(g) >>
  /\ mm' = "done"
  /\ UNCHANGED << files, tracker, i, matches, g, compared, evars, fetchvars, calls, hashvars, rtvars >>

NextMatch == MatchLoop \/ MatchWrite

SpecMatch == InitMatch /\ [][NextMatch]_vars

\* ------------------------------------------------------ FetchTweets.run
MaxTweets == 3

\* if i % 500 == 0
ProgressEvery == 500

\* RunFlow.count = luigi.IntParameter(default=1000)
DefaultCount == 1000

\* the languages of the tweets a search can yield; RunFlow asks for "en"
Langs == { "en", "fr" }

\* the tweets the loop of run() iterates over, given what the term matches
\* and search['lang']: t.search(term) is called with the term alone, lang
\* is read from the search and not used
t_search(matching, lang) == matching

\* what a term can match: a few tweets of either language, or enough
\* English tweets to reach a progress notification, the last of either
\* language
Sources ==
  SeqsUpTo(Langs, MaxTweets)
    \cup { [ k \in 1..m |-> IF k = m THEN l ELSE "en" ] :
             m \in (ProgressEvery - 1)..(ProgressEvery + 1), l \in Langs }

Counts == 0..MaxTweets \cup { ProgressEvery, DefaultCount }

\* a search and a count, and a tracker that is up or down
InitFetch ==
  /\ Idle
  /\ NoCalls
  /\ NoHashtags
  /\ NoRetweets
  /\ invocations = 0
  /\ workers = 1
  /\ files = << >>
  /\ tracker \in BOOLEAN
  /\ i = 0
  /\ matches = << >>
  /\ g = [ nodes |-> << >>, edges |-> {} ]
  /\ compared = << >>
  /\ mm = "idle"
  /\ graph_json = << "absent" >>
  /\ source \in { t_search(m, Lang) : m \in Sources }
  /\ count \in Counts
  /\ fi = 0
  /\ fh = << >>
  /\ ft = "loop"
  /\ tweets_json = << "absent" >>

\* one pass of "for tweet in t.search(term)"; on break the with block is
\* left and the temporary file becomes tweets.json
FetchLoop ==
  /\ ft = "loop"
  /\ fi < Len(source)
  /\ fi' = fi + 1
  /\ IF fi + 1 > count
       THEN /\ ft' = "done"
            /\ tweets_json' = << "written", fh >>
            /\ fh' = fh
       ELSE IF (fi + 1) % ProgressEvery = 0 /\ ~tracker
         THEN \* requests.put raises inside update_job
              /\ ft' = "failed"
              /\ UNCHANGED << fh, tweets_json >>
         ELSE /\ fh' = Append(fh, fi + 1)
              /\ UNCHANGED << ft, tweets_json >>
  /\ UNCHANGED << source, count, evars, bodyvars, calls, hashvars, rtvars >>

\* the search is exhausted: the with block is left
FetchClose ==
  /\ ft = "loop"
  /\ fi = Len(source)
  /\ ft' = "done"
  /\ tweets_json' = << "written", fh >>
  /\ UNCHANGED << source, count, fi, fh, evars, bodyvars, calls, hashvars, rtvars >>

NextFetch == FetchLoop \/ FetchClose

SpecFetch == InitFetch /\ [][NextFetch]_vars

\* ------------------------------------------------- calls of get_block_size
MaxItems == 12
MaxDamping == 5
MaxCalls == 2

InitBlock ==
  /\ Idle
  /\ NoBody
  /\ NoFetch
  /\ NoCalls
  /\ NoHashtags
  /\ NoRetweets
  /\ invocations = 0
  /\ workers = 1

\* a caller computes its update block size for n items with dampening d
CallBlockSize(n, d) ==
  /\ Len(calls) < MaxCalls
  /\ calls' = Append(calls, [ n |-> n, d |-> d, size |-> get_block_size(n, d) ])
  /\ UNCHANGED << evars, bodyvars, fetchvars, hashvars, rtvars >>

NextBlock == \E n \in (-1)..MaxItems, d \in 1..MaxDamping : CallBlockSize(n, d)

SpecBlock == InitBlock /\ [][NextBlock]_vars

\* ---------------------------------------------------- CountHashtags.run
MaxRecords == 2
MaxTags == 2

\* the hashtag texts a tweet can carry
Tags == { "docnow", "DocNow", "luigi" }

\* str.lower() on these texts
lower(text) == IF text = "DocNow" THEN "docnow" ELSE text

HasKey(cn, key) == \E k \in 1..Len(cn) : cn[k][1] = key

\* a faulty variant: every element gets an entry of its own
IncrAppends(cn, key) == Append(cn, << key, 1 >>)

\* Counter: c[key] += 1, a missing key counts as 0 and is entered last
Incr(cn, key) ==
  IF HasKey(cn, key)
    THEN [ k \in 1..Len(cn) |->
             IF cn[k][1] = key THEN << key, cn[k][2] + 1 >> ELSE cn[k] ]
    ELSE Append(cn, << key, 1 >>)

RECURSIVE update(_, _)
\* Counter.update(list): one increment per element
update(cn, list) ==
  IF list = << >> THEN cn ELSE update(Incr(cn, Head(list)), Tail(list))

\* [ht['text'].lower() for ht in tweet['entities']['hashtags']]
LoweredTexts(hashtags) == [ k \in 1..Len(hashtags) |-> lower(hashtags[k]) ]

\* a tweets.json of up to MaxRecords tweets with up to MaxTags hashtags each
InitHashtags ==
  /\ Idle
  /\ NoBody
  /\ NoFetch
  /\ NoCalls
  /\ NoRetweets
  /\ invocations = 0
  /\ workers = 1
  /\ tweets \in SeqsUpTo(SeqsUpTo(Tags, MaxTags), MaxRecords)
  /\ counter = << >>
  /\ hi = 0
  /\ hs = "loop"
  /\ count_hashtags_csv = << "absent" >>

\* one pass of "for tweet_str in self.input().open('r')"
HashtagLoop ==
  /\ hs = "loop"
  /\ hi < Len(tweets)
  /\ counter' = update(counter, LoweredTexts(tweets[hi + 1]))
  /\ hi' = hi + 1
  /\ UNCHANGED << tweets, hs, count_hashtags_csv, evars, bodyvars, fetchvars, calls, rtvars >>

\* the header and one row per item of c are written
HashtagWrite ==
  /\ hs = "loop"
  /\ hi = Len(tweets)
  /\ count_hashtags_csv' = << "written", counter >>
  /\ hs' = "done"
  /\ UNCHANGED << tweets, counter, hi, evars, bodyvars, fetchvars, calls, rtvars >>

NextHashtags == HashtagLoop \/ HashtagWrite

SpecHashtags == InitHashtags /\ [][NextHashtags]_vars

\* ---------------------------------------------------- CountRetweets.run
MaxTail == 2

\* if len(retweets) > 100
Limit == 100

\* the first Limit lines of tweets.json: none, or tweets 1..Limit that are
\* not retweets, with rising, falling or equal retweet counts
Feeds == { "none", "rising", "falling", "flat" }

FeedLen(f) == IF f = "none" THEN 0 ELSE Limit

\* line k of the feed; retweeted_status is 0 when the tweet has none
FeedLine(f, k) ==
  [ id_str |-> k,
    retweet_count |-> CASE f = "rising"  -> k
                        [] f = "falling" -> Limit + 1 - k
                        [] OTHER         -> Limit \div 2,
    retweeted_status |-> 0 ]

\* the lines after the feed: new tweets, some of them retweets of tweet 1
\* or of tweet Limit; a retweet_count of 0 is also a missing one
TailLines ==
  [ id_str : { Limit + 1, Limit + 2 },
    retweet_count : { 0, 1, Limit \div 2, 2 * Limit },
    retweeted_status : { 0, 1, Limit } ]

\* a faulty variant: the order of the counts, without the reversal
lt_plain(a, b) == a.count < b.count

\* Retweet.__lt__: "a trick to have bisect reverse sort"
lt(a, b) == a.count > b.count

RECURSIVE bisect_right(_, _, _, _)
\* bisect.bisect_right(a, x) on the 0-based positions lo..top
bisect_right(a, x, lo, top) ==
  IF lo >= top THEN lo
  ELSE LET mid == (lo + top) \div 2
       IN  IF lt(x, a[mid + 1]) THEN bisect_right(a, x, lo, mid)
           ELSE bisect_right(a, x, mid + 1, top)

\* bisect.insort_right(a, x)
insort_right(a, x) ==
  LET pos == bisect_right(a, x, 0, Len(a))
  IN  SubSeq(a, 1, pos) \o << x >> \o SubSeq(a, pos + 1, Len(a))

InitRetweets ==
  /\ Idle
  /\ NoBody
  /\ NoFetch
  /\ NoCalls
  /\ NoHashtags
  /\ invocations = 0
  /\ workers = 1
  /\ feed \in Feeds
  /\ rk = 0
  /\ retweets = << >>
  /\ retweet_ids = {}
  /\ rt = << >>
  /\ rs = "loop"
  /\ retweets_csv = << "absent" >>

\* one pass of "for tweet_str in self.input().open('r')" on the line tweet
RetweetLoop(tweet) ==
  /\ rs = "loop"
  /\ rk < FeedLen(feed) + MaxTail
  /\ rk' = rk + 1
  /\ LET tweet_id == IF tweet.retweeted_status # 0 THEN tweet.retweeted_status
                     ELSE tweet.id_str
         ins == insort_right(retweets, [ id |-> tweet_id, count |-> tweet.retweet_count ])
     IN  IF tweet.retweet_count = 0 \/ tweet_id \in retweet_ids
           THEN UNCHANGED << retweets, retweet_ids, rt >>
           ELSE IF Len(ins) > Limit
             THEN /\ retweets' = SubSeq(ins, 1, Len(ins) - 1)
                  /\ rt' = << ins[Len(ins)] >>
                  /\ retweet_ids' = (retweet_ids \cup { tweet_id }) \ { ins[Len(ins)].id }
             ELSE /\ retweets' = ins
                  /\ retweet_ids' = retweet_ids \cup { tweet_id }
                  /\ rt' = rt
  /\ UNCHANGED << feed, rs, retweets_csv, evars, bodyvars, fetchvars, calls, hashvars >>

\* the file has no more lines: the header and one row per entry are written
RetweetWrite ==
  /\ rs = "loop"
  /\ rk >= FeedLen(feed)
  /\ retweets_csv' = << "written", retweets >>
  /\ rs' = "done"
  /\ UNCHANGED << feed, rk, retweets, retweet_ids, rt, evars, bodyvars, fetchvars, calls, hashvars >>

NextRetweets ==
  \/ \E tweet \in TailLines :
       RetweetLoop(IF rk < FeedLen(feed) THEN FeedLine(feed, rk + 1) ELSE tweet)
  \/ RetweetWrite

SpecRetweets == InitRetweets /\ [][NextRetweets]_vars

\* ============================================================== properties

\* run() of f raised in the current run
Raised(f) == status[f] = "FAILED" /\ cause[f] \in { "body", "notify" }

\* this step enters run() of t
Enters(t) == bodies'[t] = bodies[t] + 1

\* the chain of tasks each of which requires the one before
C1_Chain ==
  << "FetchTweets", "CountMedia", "FetchMedia", "MatchMedia", "PopulateRedis", "BagIt" >>

\* C1: a task body starts only after every task it requires is DONE and the
\* Target of that task is complete, whatever the workers do; in particular
\* along FetchTweets, CountMedia, FetchMedia, MatchMedia, PopulateRedis,
\* BagIt.
C1_RequiredFirst ==
  /\ \A t \in Tasks : bodies[t] > 0 =>
       \A d \in Requires(t) : status[d] = "DONE" /\ target[d] = "complete"
  /\ \A k \in 1..(Len(C1_Chain) - 1) : bodies[C1_Chain[k + 1]] > 0 =>
       /\ status[C1_Chain[k]] = "DONE"
       /\ target[C1_Chain[k]] = "complete"
       /\ bodies[C1_Chain[k]] > 0

\* BagIt runs beside another task, on a pool of two workers
C1_Witness ==
  /\ status["BagIt"] = "RUNNING"
  /\ Cardinality(Running) = 2

\* C2 (as claimed): a second run with the parameters of a first run that
\* ended DONE enters no run() of a task class of summarize.py.
C2_SecondRunIdle ==
  (/\ run >= 2
   /\ root = "RunFlow"
   /\ prev.root = "RunFlow"
   /\ prev.params = params
   /\ prev.done)
  => \A t \in Tasks \ { "RunFlow" } : bodies[t] = 0

C5_DeliveryNeverFails ==
  \A t \in Tasks : cause[t] # "notify" /\ status[t] # "BROKEN"

\* C6: the Target of a task is absent or complete, never half written, and
\* it is complete only if it was there when the run began or run() of the
\* task returned.
C6_TargetAtomic ==
  \A t \in Tasks :
    /\ target[t] \in { "absent", "complete" }
    /\ target[t] = "complete" => (t \in snap \/ status[t] = "DONE")
    /\ status[t] \in { "RUNNING", "FAILED", "KILLED" } => target[t] = "absent"

\* run() of BagIt raised
C6_Witness ==
  /\ status["BagIt"] = "FAILED"
  /\ cause["BagIt"] = "body"
  /\ target["BagIt"] = "absent"

\* C10: run() is entered only for tasks whose Target was missing when the
\* run was invoked.
C10_CompleteNotRun ==
  \A t \in Tasks : bodies[t] > 0 => t \notin snap

\* a second run finds the Target of FetchMedia and runs MatchMedia
C10_Witness ==
  /\ run = 2
  /\ "FetchMedia" \in snap
  /\ status["FetchMedia"] = "DONE"
  /\ bodies["FetchMedia"] = 0
  /\ bodies["MatchMedia"] > 0

\* C11 (as claimed): a run with the parameters of a run that failed after
\* the Target of FetchTweets was complete does not enter run() of
\* FetchTweets again.
C11_ResumesAtIncomplete ==
  (/\ run >= 2
   /\ root = "RunFlow"
   /\ prev.root = "RunFlow"
   /\ prev.params = params
   /\ prev.failed
   /\ prev.fetched)
  => bodies["FetchTweets"] = 0

C13_OneFetchTweets ==
  /\ bodies["FetchTweets"] <= 1
  /\ Cardinality({ id \in UNION { RequiredIds(t) : t \in Tasks } :
                     id[1] = "FetchTweets" }) = 1

\* two workers run two tasks that both require FetchTweets
C13_Witness ==
  /\ workers = 2
  /\ bodies["FetchTweets"] = 1
  /\ status["CountHashtags"] = "RUNNING"
  /\ status["CountMedia"] = "RUNNING"

\* C14: for a task whose run() was entered the START handler was called
\* first; after run() returned exactly SUCCESS follows, after it raised
\* exactly FAILURE, and nothing while it runs.
C14_StartThenOneTerminal ==
  \A t \in Tasks :
    /\ bodies[t] > 0 => (Len(events[t]) >= 1 /\ events[t][1] = "START")
    /\ (bodies[t] > 0 /\ status[t] = "DONE") => events[t] = << "START", "SUCCESS" >>
    /\ (bodies[t] > 0 /\ Raised(t)) => events[t] = << "START", "FAILURE" >>
    /\ status[t] \in { "RUNNING", "KILLED" } => events[t] = << "START" >>

\* FetchMedia returned and MatchMedia raised
C14_Witness ==
  /\ events["FetchMedia"] = << "START", "SUCCESS" >>
  /\ Raised("MatchMedia")
  /\ events["MatchMedia"] = << "START", "FAILURE" >>

C16_DistinctPartitions ==
  (/\ run >= 2
   /\ root = "RunFlow"
   /\ prev.root = "RunFlow"
   /\ prev.params # params)
  => prev.date_path # date_path

\* C17: no two tasks declare the same Target locator, and no two tasks that
\* run at the same time write the same Target.
C17_OneProducer ==
  /\ \A t, u \in Tasks \ { "RunFlow" } : t # u => output(t) # output(u)
  /\ \A t, u \in Running : t # u => output(t) # output(u)

\* CountUrls and CountDomains run at the same time
C17_Witness ==
  /\ status["CountUrls"] = "RUNNING"
  /\ status["CountDomains"] = "RUNNING"

\* ------------------------------------------------ properties of MatchMedia
Items == 1..Len(files)

\* the similarity graph of the files: combined distance at most 40
Similar(a, b) == a # b /\ SumHash(files[a], files[b]) <= 40

RECURSIVE Linked(_, _, _)
\* a is joined to b by a chain of similar pairs whose inner items are <= k
Linked(a, b, k) ==
  IF k = 0 THEN Similar(a, b)
  ELSE \/ Linked(a, b, k - 1)
       \/ Linked(a, k, k - 1) /\ Linked(k, b, k - 1)

\* the component of a in the similarity graph
Component(a) == { a } \cup { b \in Items : b # a /\ Linked(a, b, Len(files)) }

Groups == graph_json[2]

\* C7: the emitted groups are the connected components of the similarity
\* graph that have an edge, and no two groups share an item.
C7_GroupsAreComponents ==
  mm = "done" =>
    /\ Range(Groups) = { Component(a) : a \in { x \in Items : \E y \in Items : Similar(x, y) } }
    /\ \A k, l \in 1..Len(Groups) : k # l => Groups[k] \cap Groups[l] = {}

\* three files in one group, two of them further apart than the threshold
C7_Witness ==
  /\ mm = "done"
  /\ Len(files) = 3
  /\ Groups = << { 1, 2, 3 } >>
  /\ \E a, b \in Items : a # b /\ SumHash(files[a], files[b]) > 40

\* C8: a file with no similar file is in no group, and every group has at
\* least two members.
C8_NoSingletons ==
  mm = "done" =>
    /\ \A a \in Items : (\A b \in Items : ~Similar(a, b)) =>
         \A k \in 1..Len(Groups) : a \notin Groups[k]
    /\ \A k \in 1..Len(Groups) : Cardinality(Groups[k]) >= 2

\* a group is written and one file is in none
C8_Witness ==
  /\ mm = "done"
  /\ Len(Groups) = 1
  /\ \E a \in Items : a \notin Groups[1]

\* C9 (as claimed): with the tracker up, a file PIL cannot open does not
\* make MatchMedia fail.
C9_CorruptSkipped ==
  (tracker /\ \E k \in Items : ~files[k].readable) => mm # "failed"

\* C18: when MatchMedia is done it has compared every pair of files once,
\* the later file with the earlier one, and g has the edge of a pair if
\* and only if the three distances of the pair sum to at most 40.
C18_EachPairOnce ==
  mm = "done" =>
    /\ \A a, b \in Items : b < a =>
         Cardinality({ k \in 1..Len(compared) : compared[k] = << a, b >> }) = 1
    /\ \A k \in 1..Len(compared) : compared[k][2] < compared[k][1]
    /\ g.edges = { e \in { { a, b } : a, b \in Items } :
                     \E a, b \in e : a # b /\ SumHash(files[a], files[b]) <= 40 }
    /\ Len(matches) = Cardinality(g.edges)

\* three files: one pair at distance 40 with an edge, one at 41 without
C18_Witness ==
  /\ mm = "done"
  /\ Len(files) = 3
  /\ \E a, b \in Items : SumHash(files[a], files[b]) = 40 /\ { a, b } \in g.edges
  /\ \E a, b \in Items : SumHash(files[a], files[b]) = 41 /\ { a, b } \notin g.edges

\* C19 (as claimed): of two calls of get_block_size with the same d, the
\* one with more items does not return the smaller block size.
C19_Monotone ==
  \A k, l \in 1..Len(calls) :
    (calls[k].d = calls[l].d /\ 0 < calls[k].n /\ calls[k].n < calls[l].n)
      => calls[l].size >= calls[k].size

\* 10^c
Pow10(c) == IF c = 0 THEN 1 ELSE IF c = 1 THEN 10 ELSE 100

\* C19 (amended): of two calls with the same d whose item counts lie in the
\* same decade (10^(c-1) < n1 < n2 <= 10^c, c >= 1) and are at least c * d,
\* the one with more items does not return the smaller block size.
C19_MonotoneInDecade ==
  \A k, l \in 1..Len(calls) : \A c \in 1..2 :
    (/\ calls[k].d = calls[l].d
     /\ Pow10(c - 1) < calls[k].n
     /\ calls[k].n < calls[l].n
     /\ calls[l].n <= Pow10(c)
     /\ calls[k].n >= c * calls[k].d)
      => calls[l].size >= calls[k].size

\* 5 items and 10 items, both with d = 5: block sizes 1 and 2
C19_Witness ==
  /\ Len(calls) = 2
  /\ calls[1] = [ n |-> 5, d |-> 5, size |-> 1 ]
  /\ calls[2] = [ n |-> 10, d |-> 5, size |-> 2 ]

\* C20 (as claimed): tweets.json holds min(m, count) lines, one per tweet,
\* and every tweet in it has the language of the search.
C20_CountAndLanguage ==
  ft = "done" =>
    /\ Len(tweets_json[2]) = (IF Len(source) < count THEN Len(source) ELSE count)
    /\ \A k \in 1..Len(tweets_json[2]) : source[tweets_json[2][k]] = Lang

\* the data rows of count-hashtags.csv
Rows == count_hashtags_csv[2]

\* the hashtags of all tweets, one element per occurrence: << tweet, position >>
Occurrences == { p \in (1..Len(tweets)) \X (1..MaxTags + 1) : p[2] <= Len(tweets[p[1]]) }

TextAt(p) == tweets[p[1]][p[2]]

\* C21 (as claimed): one data row per distinct hashtag text of the input,
\* with the number of occurrences of that text.
C21_RowPerHashtag ==
  hs = "done" =>
    /\ { Rows[k][1] : k \in 1..Len(Rows) } = { TextAt(p) : p \in Occurrences }
    /\ \A k, l \in 1..Len(Rows) : Rows[k][1] = Rows[l][1] => k = l
    /\ \A k \in 1..Len(Rows) :
         Rows[k][2] = Cardinality({ p \in Occurrences : TextAt(p) = Rows[k][1] })

\* C21 (amended): one data row per distinct lower-cased hashtag text of the
\* input, with the number of occurrences whose lower-cased text it is.
C21_RowPerLoweredHashtag ==
  hs = "done" =>
    /\ { Rows[k][1] : k \in 1..Len(Rows) } = { lower(TextAt(p)) : p \in Occurrences }
    /\ \A k, l \in 1..Len(Rows) : Rows[k][1] = Rows[l][1] => k = l
    /\ \A k \in 1..Len(Rows) :
         Rows[k][2] = Cardinality({ p \in Occurrences : lower(TextAt(p)) = Rows[k][1] })

\* two tweets, one with DocNow and luigi, one with docnow: two rows
C21_Witness ==
  /\ hs = "done"
  /\ tweets = << << "DocNow", "luigi" >>, << "docnow" >> >>
  /\ Rows = << << "docnow", 2 >>, << "luigi", 1 >> >>

\* C22 (as claimed): while run() of BagIt runs, the Target of every other
\* task RunFlow yields is complete and no other run() is running.
C22_BagItLast ==
  status["BagIt"] = "RUNNING" =>
    /\ \A t \in Range(RunFlowYields) \ { "BagIt" } : target[t] = "complete"
    /\ Running = { "BagIt" }

\* C23: when run() of PopulateRedis is entered, tweets.json and
\* media-graph.json of the date_path are complete.
C23_RedisInputsComplete ==
  bodies["PopulateRedis"] > 0 =>
    /\ target["FetchTweets"] = "complete"
    /\ target["MatchMedia"] = "complete"

\* a second run finds media-graph.json, does not look at the tasks before
\* MatchMedia and runs PopulateRedis
C23_Witness ==
  /\ run = 2
  /\ "MatchMedia" \in snap
  /\ status["FetchTweets"] = "NONE"
  /\ status["PopulateRedis"] = "RUNNING"

\* C24: every call of get_block_size, for n <= 0, n = 1 and n above, with
\* d >= 1, returns at least 1.
C24_BlockSizePositive ==
  \A k \in 1..Len(calls) : calls[k].d >= 1 => calls[k].size >= 1

\* the calls with no items, and with 4 items and d = 5, where the quotient
\* is 0: both return the default
C24_Witness ==
  /\ Len(calls) = 2
  /\ calls[1] = [ n |-> 0, d |-> 1, size |-> 100 ]
  /\ calls[2] = [ n |-> 4, d |-> 5, size |-> 100 ]

\* C25: after every line CountRetweets has read, retweets has at most 100
\* entries in order of non-increasing count, no id twice, retweet_ids is
\* the set of its ids, and the entry popped last has no more retweets than
\* any entry kept.
C25_RetainedList ==
  /\ Len(retweets) <= 100
  /\ \A k \in 1..(Len(retweets) - 1) : retweets[k].count >= retweets[k + 1].count
  /\ \A k, l \in 1..Len(retweets) : retweets[k].id = retweets[l].id => k = l
  /\ retweet_ids = { retweets[k].id : k \in 1..Len(retweets) }
  /\ rt # << >> => \A k \in 1..Len(retweets) : retweets[k].count >= rt[1].count

\* after 100 tweets with rising counts a tweet with more retweets pushed
\* out tweet 1, and a retweet of tweet 1 was inserted and popped again
C25_Witness ==
  /\ feed = "rising"
  /\ rk = 102
  /\ Len(retweets) = 100
  /\ retweets[1].count = 200
  /\ 1 \notin retweet_ids
  /\ rt = << [ id |-> 1, count |-> 1 ] >>

====
